---- MODULE Spec2Model ----
(***************************************************************************)
(* A model of the twtxt AST package (types/lextwt/ast.go) and of the       *)
(* types package it implements.                                            *)
(*                                                                         *)
(* Go strings are sequences of characters; a character is a one-atom TLA+  *)
(* string.  The empty Go string is << >>, concatenation is \o.             *)
(***************************************************************************)
EXTENDS Integers, Sequences, FiniteSets, TLC

VARIABLES
    lis,      \* Comments: the metadata store, a sequence of *Comment
    kvOut,    \* what the last call on the metadata store returned
    heap,     \* the element objects, by address
    t,        \* the Twt the model follows, from its construction on
    clone,    \* its clone: << >> before Clone is called, <<the clone>> after
    out,      \* the call the caller is reading the result of, and the result
    carried,  \* the hash of the payload t was decoded from, empty if none
    twtManager, \* the package variable twtManager of package types
    installed,  \* << >> before any SetTwtManager call, <<m>> after SetTwtManager(m)
    feed,       \* a Twts slice a caller holds: id and creation time of each Twt
    typesOut    \* what the last call of a function of package types returned

kvVars == <<lis, kvOut>>
twtVars == <<heap, t, clone, out, carried>>
typesVars == <<twtManager, installed, feed, typesOut>>
vars == <<lis, kvOut, heap, t, clone, out, carried, twtManager, installed, feed,
          typesOut>>

(***************************************************************************)
(* Bounds of the model.                                                    *)
(***************************************************************************)
MaxComments == 3
MaxN == 3
MaxTwts == 3
MaxTime == 2

(***************************************************************************)
(* Strings.                                                                *)
(***************************************************************************)
EmptyStr == << >>

\* unicode.IsSpace, on the characters the model uses
IsSpace(ch) == ch \in {" ", "\t", "\n"}

\* strings.HasPrefix
HasPrefix(s, prefix) ==
    /\ Len(prefix) <= Len(s)
    /\ SubSeq(s, 1, Len(prefix)) = prefix

\* strings.HasSuffix
HasSuffix(s, suffix) ==
    /\ Len(suffix) <= Len(s)
    /\ SubSeq(s, Len(s) - Len(suffix) + 1, Len(s)) = suffix

\* strings.Fields: the maximal runs of non-space characters, in order.
\* Scans s from position i; cur is the field being read, acc the fields read.
RECURSIVE FieldsScan(_, _, _, _)
FieldsScan(s, i, cur, acc) ==
    IF i > Len(s)
    THEN IF cur = EmptyStr THEN acc ELSE Append(acc, cur)
    ELSE IF IsSpace(s[i])
         THEN FieldsScan(s, i + 1, EmptyStr,
                         IF cur = EmptyStr THEN acc ELSE Append(acc, cur))
         ELSE FieldsScan(s, i + 1, Append(cur, s[i]), acc)

Fields(s) == FieldsScan(s, 1, EmptyStr, << >>)

(***************************************************************************)
(* Comment and Comments (ast.go 54-139).                                   *)
(***************************************************************************)
KeyFollow == <<"f", "o", "l", "l", "o", "w">>
KeyFollowing == KeyFollow \o <<"i", "n", "g">>
KeyFol == <<"f", "o", "l">>

\* NewComment(comment): a plain comment, no key and no value
NewComment(comment) == [comment |-> comment, key |-> EmptyStr, value |-> EmptyStr]

\* NewCommentValue(comment, key, value)
NewCommentValue(comment, key, value) ==
    [comment |-> comment, key |-> key, value |-> value]

\* The literal of a key/value header line, "# key = value"
KVLiteral(key, value) == <<"#", " ">> \o key \o <<" ", "=", " ">> \o value

\* The comment lines a feed header is drawn from
CommentInputs ==
    { NewComment(<<"#", " ", "x">>) }
    \cup { NewCommentValue(KVLiteral(kv[1], kv[2]), kv[1], kv[2]) :
             kv \in { <<KeyFollow, <<"a", " ", "b">> >>,
                      <<KeyFollow, <<"a">> >>,
                      <<KeyFollow, <<" ", "a", "\t", " ", "b", " ", "c">> >>,
                      <<KeyFollowing, <<"c", " ", "a">> >>,
                      <<KeyFol, <<"a", " ", "c">> >> } }

\* The keys and the prefixes callers ask for
Keys == {EmptyStr, KeyFollow, KeyFollowing}
Prefixes == {EmptyStr, KeyFol, KeyFollow}

NotFound == [found |-> FALSE, at |-> 0]
Found(i) == [found |-> TRUE, at |-> i]

\* The loop of GetN from element i on (1-based; Go's i is i-1), idx the
\* positions collected so far, and the lookup after the loop.
RECURSIVE GetNScan(_, _, _, _, _)
GetNScan(l, key, n, i, idx) ==
    IF i > Len(l)
    THEN IF n < 0 /\ -n < Len(idx)
         THEN Found(idx[Len(idx) + n + 1])
         ELSE NotFound
    ELSE IF n = 0 /\ key = l[i].key
         THEN Found(i)
         ELSE LET idx2 == IF key = l[i].key THEN Append(idx, i) ELSE idx
              IN  IF n = Len(idx2) /\ key = l[i].key
                  THEN Found(i)
                  ELSE GetNScan(l, key, n, i + 1, idx2)

\* A GetN whose count test comes before the append: the n-th match is
\* reported one match late.
RECURSIVE GetNScanLate(_, _, _, _, _)
GetNScanLate(l, key, n, i, idx) ==
    IF i > Len(l)
    THEN IF n < 0 /\ -n < Len(idx)
         THEN Found(idx[Len(idx) + n + 1])
         ELSE NotFound
    ELSE IF n = 0 /\ key = l[i].key
         THEN Found(i)
         ELSE IF n = Len(idx) /\ key = l[i].key
              THEN Found(i)
              ELSE GetNScanLate(l, key, n, i + 1,
                                IF key = l[i].key THEN Append(idx, i) ELSE idx)

GetNLate(l, key, n) == GetNScanLate(l, key, n, 1, << >>)

\* Comments.GetN(key, n): the position of the returned entry, or not found
GetN(l, key, n) == GetNScan(l, key, n, 1, << >>)

\* Comments.GetAll(prefix): the positions of the returned entries, in order
RECURSIVE GetAllScan(_, _, _, _)
GetAllScan(l, prefix, i, nlis) ==
    IF i > Len(l)
    THEN nlis
    ELSE IF l[i].key = EmptyStr
         THEN GetAllScan(l, prefix, i + 1, nlis)
         ELSE GetAllScan(l, prefix, i + 1,
                         IF HasPrefix(l[i].key, prefix)
                         THEN Append(nlis, i) ELSE nlis)

GetAll(l, prefix) == GetAllScan(l, prefix, 1, << >>)

\* types.Twter{Nick, URL}; Avatar and Tagline are empty
Twter(nick, url) ==
    [Nick |-> nick, URL |-> url, Avatar |-> EmptyStr, Tagline |-> EmptyStr]

\* The loop of Followers over flis, the entries GetAll("follow") returned
RECURSIVE FollowersScan(_, _, _, _)
FollowersScan(l, flis, j, nlis) ==
    IF j > Len(flis)
    THEN nlis
    ELSE LET sp == Fields(l[flis[j]].value)
         IN  IF Len(sp) < 2
             THEN FollowersScan(l, flis, j + 1, nlis)
             ELSE FollowersScan(l, flis, j + 1,
                                Append(nlis, Twter(sp[1], sp[2])))

\* A Followers that keeps an entry only when it has exactly two fields
RECURSIVE FollowersScanExact(_, _, _, _)
FollowersScanExact(l, flis, j, nlis) ==
    IF j > Len(flis)
    THEN nlis
    ELSE LET sp == Fields(l[flis[j]].value)
         IN  IF Len(sp) # 2
             THEN FollowersScanExact(l, flis, j + 1, nlis)
             ELSE FollowersScanExact(l, flis, j + 1,
                                     Append(nlis, Twter(sp[1], sp[2])))

FollowersExact(l) == FollowersScanExact(l, GetAll(l, KeyFollow), 1, << >>)

\* Comments.Followers()
Followers(l) == FollowersScan(l, GetAll(l, KeyFollow), 1, << >>)

(***************************************************************************)
(* Elements (ast.go 141-583).  An element lives in the heap: heap[a] is the *)
(* object at address a, Nil is Go's nil pointer, and the package variable  *)
(* LineSeparator is the one lineSeparator object, always at address 1.     *)
(* A Mention's and a Tag's url and err fields only cache url.Parse(target) *)
(* for URL(), which nothing below calls while the target is empty, so the  *)
(* model parses the target where the code reads the cache.                 *)
(***************************************************************************)
Nil == 0
LineSeparator == 1

LinkStandard == 1
LinkMedia == 2
LinkPlain == 3
LinkNaked == 4

CodeInline == 1
CodeBlock == 2

MarkdownFmt == 0
HTMLFmt == 1
TextFmt == 2

\* U+2028, the newline, the backtick and the triple backtick, as characters
LS == "U+2028"
NL == "\n"
Fence1 == "BACKTICK"
Fence3 == "BACKTICK3"

\* A URL is scheme, host, path: url.Parse(s).Hostname() and .Path
Hostname(s) == IF Len(s) >= 2 /\ s[1] = "https://" THEN <<s[2]>> ELSE EmptyStr
URLPath(s) == IF Len(s) >= 3 /\ s[1] = "https://" THEN SubSeq(s, 3, Len(s)) ELSE EmptyStr

\* The position of the first "@" of s, 0 when it has none
AtSign(s) ==
    LET S == {i \in 1 .. Len(s) : s[i] = "@"}
    IN  IF S = {} THEN 0 ELSE CHOOSE i \in S : \A j \in S : i <= j

\* strings.ReplaceAll(s, " ", "\n")
ReplaceLS(s) == [i \in 1 .. Len(s) |-> IF s[i] = LS THEN NL ELSE s[i]]

\* Mention.FormatText, on the fields it reads
MentionFormatText(name, target) ==
    IF name # EmptyStr /\ target = EmptyStr THEN <<"@">> \o name
    ELSE IF name = EmptyStr /\ target # EmptyStr THEN <<"@", "<">> \o target \o <<">">>
    ELSE IF name # EmptyStr /\ target # EmptyStr
         THEN <<"@", "<">> \o name \o <<" ">> \o target \o <<">">>
    ELSE EmptyStr

\* Mention.FormatCompact
MentionFormatCompact(n) ==
    IF n.name = EmptyStr /\ n.target # EmptyStr
    THEN <<"@", "<">> \o n.target \o <<">">>
    ELSE <<"@">> \o n.name

\* Mention.FormatMarkdown
MentionFormatMarkdown(n) ==
    IF n.name # EmptyStr /\ n.target = EmptyStr THEN <<"@">> \o n.name
    ELSE IF n.name = EmptyStr /\ n.target # EmptyStr THEN <<"<">> \o n.target \o <<">">>
    ELSE IF n.name # EmptyStr /\ n.target # EmptyStr
         THEN <<"[", "@">> \o n.name \o <<"]", "(">> \o n.target \o <<"#">> \o n.name \o <<")">>
    ELSE EmptyStr

\* Mention.FormatHTML
MentionFormatHTML(n) ==
    IF n.target = EmptyStr
    THEN <<"@">> \o n.name
         \o (IF n.domain # EmptyStr THEN <<"<em>", "@">> \o n.name \o <<"</em>">>
             ELSE EmptyStr)
    ELSE <<"<a href=\"">> \o n.target \o <<"\">", "@">> \o n.name
         \o (IF n.domain # EmptyStr THEN <<"<em>", "@">> \o n.domain \o <<"</em>">>
             ELSE EmptyStr)
         \o <<"</a>">>

\* NewMention(name, target)
NewMention(name, target) ==
    LET at == AtSign(name)
        nm == IF at > 0 THEN SubSeq(name, 1, at - 1) ELSE name
        dom == IF at > 0 THEN SubSeq(name, at + 1, Len(name)) ELSE EmptyStr
    IN  [kind |-> "Mention",
         lit |-> MentionFormatText(name, target),
         name |-> nm,
         domain |-> IF dom = EmptyStr /\ target # EmptyStr THEN Hostname(target) ELSE dom,
         target |-> target]

\* Tag.FormatCompact
TagFormatCompact(n) == <<"#">> \o n.tag

\* Tag.FormatText
TagFormatText(n) ==
    IF n.target = EmptyStr THEN TagFormatCompact(n)
    ELSE IF n.tag = EmptyStr THEN <<"#", "<">> \o n.target \o <<">">>
    ELSE <<"#", "<">> \o n.tag \o <<" ">> \o n.target \o <<">">>

\* Tag.FormatMarkdown
TagFormatMarkdown(n) ==
    IF n.target = EmptyStr THEN TagFormatCompact(n)
    ELSE IF n.tag = EmptyStr
         THEN <<"[">> \o Hostname(n.target) \o URLPath(n.target) \o <<"]", "(">>
              \o n.target \o <<")">>
    ELSE <<"[", "#">> \o n.tag \o <<"]", "(">> \o n.target \o <<")">>

\* Tag.FormatHTML
TagFormatHTML(n) ==
    IF n.target = EmptyStr THEN TagFormatCompact(n)
    ELSE <<"<a href=\"">> \o n.target \o <<"\">", "#">> \o n.tag \o <<"</a>">>

\* NewTag(tag, target)
NewTag(tag, target) ==
    [kind |-> "Tag",
     lit |-> TagFormatText([tag |-> tag, target |-> target]),
     tag |-> tag,
     target |-> target]

\* NewSubject(text); NewSubjectTag(tag, target) is a Subject whose tag field
\* is the address of a NewTag(tag, target)
NewSubject(text) == [kind |-> "Subject", subject |-> text, tag |-> Nil]
SubjectOfTag(tagAddr) == [kind |-> "Subject", subject |-> EmptyStr, tag |-> tagAddr]

NewText(txt) == [kind |-> "Text", lit |-> txt]
NewLink(text, target, linkType) ==
    [kind |-> "Link", linkType |-> linkType, text |-> text, target |-> target]
NewCode(text, codeType) == [kind |-> "Code", codeType |-> codeType, lit |-> text]
TheLineSeparator == [kind |-> "lineSeparator"]

\* Link.Literal
LinkLiteral(n) ==
    IF n.linkType = LinkNaked THEN n.target
    ELSE IF n.linkType = LinkPlain THEN <<"<">> \o n.target \o <<">">>
    ELSE IF n.linkType = LinkMedia
         THEN <<"!", "[">> \o n.text \o <<"]", "(">> \o n.target \o <<")">>
    ELSE <<"[">> \o n.text \o <<"]", "(">> \o n.target \o <<")">>

\* Code.Literal
CodeLiteral(n) ==
    IF n.codeType = CodeBlock THEN <<Fence3>> \o n.lit \o <<Fence3>>
    ELSE <<Fence1>> \o n.lit \o <<Fence1>>

\* Code.String and Code.FormatMarkdown
CodeString(n) == ReplaceLS(CodeLiteral(n))

\* Subject.Literal
SubjectLiteral(h, n) ==
    IF n.tag # Nil THEN <<"(">> \o h[n.tag].lit \o <<")">>
    ELSE <<"(">> \o n.subject \o <<")">>

\* A Subject.Text that returns the text of the tag, not its literal
SubjectTextOfTag(h, n) == IF n.tag = Nil THEN n.subject ELSE h[n.tag].tag

\* Subject.Text
SubjectText(h, n) == IF n.tag = Nil THEN n.subject ELSE h[n.tag].lit

\* Subject.FormatText, FormatMarkdown, FormatHTML
SubjectFormatText(h, n) ==
    <<"(">> \o (IF n.tag = Nil THEN n.subject ELSE TagFormatCompact(h[n.tag])) \o <<")">>
SubjectFormatMarkdown(h, n) ==
    <<"(">> \o (IF n.tag = Nil THEN n.subject ELSE TagFormatMarkdown(h[n.tag])) \o <<")">>
SubjectFormatHTML(h, n) ==
    <<"(">> \o (IF n.tag = Nil THEN n.subject ELSE TagFormatHTML(h[n.tag])) \o <<")">>

\* Elem.Literal of the element at address a
Literal(h, a) ==
    LET n == h[a]
    IN  CASE n.kind = "Mention" -> n.lit
          [] n.kind = "Tag" -> n.lit
          [] n.kind = "Subject" -> SubjectLiteral(h, n)
          [] n.kind = "Text" -> n.lit
          [] n.kind = "lineSeparator" -> <<LS>>
          [] n.kind = "Link" -> LinkLiteral(n)
          [] n.kind = "Code" -> CodeLiteral(n)

\* The renderer interfaces an element implements: ElemText, ElemMarkdown,
\* ElemHTML, ElemCompact
IsElemText(n) == n.kind \in {"Mention", "Tag", "Subject", "lineSeparator"}
IsElemMarkdown(n) == n.kind \in {"Mention", "Tag", "Subject", "Code"}
IsElemHTML(n) == n.kind \in {"Mention", "Tag", "Subject"}
IsElemCompact(n) == n.kind \in {"Mention", "Tag"}

\* FormatText, FormatMarkdown, FormatHTML, FormatCompact of the element at a
ElemFormatText(h, a) ==
    LET n == h[a]
    IN  CASE n.kind = "Mention" -> MentionFormatText(n.name, n.target)
          [] n.kind = "Tag" -> TagFormatText(n)
          [] n.kind = "Subject" -> SubjectFormatText(h, n)
          [] n.kind = "lineSeparator" -> <<NL>>
ElemFormatMarkdown(h, a) ==
    LET n == h[a]
    IN  CASE n.kind = "Mention" -> MentionFormatMarkdown(n)
          [] n.kind = "Tag" -> TagFormatMarkdown(n)
          [] n.kind = "Subject" -> SubjectFormatMarkdown(h, n)
          [] n.kind = "Code" -> CodeString(n)
ElemFormatHTML(h, a) ==
    LET n == h[a]
    IN  CASE n.kind = "Mention" -> MentionFormatHTML(n)
          [] n.kind = "Tag" -> TagFormatHTML(n)
          [] n.kind = "Subject" -> SubjectFormatHTML(h, n)
ElemFormatCompact(h, a) ==
    LET n == h[a]
    IN  CASE n.kind = "Mention" -> MentionFormatCompact(n)
          [] n.kind = "Tag" -> TagFormatCompact(n)

(***************************************************************************)
(* Twt (ast.go 585-972).  A Twt holds addresses: msg, mentions, tags and   *)
(* links are slices of element pointers, subject is a *Subject.  dt is a   *)
(* *DateTime: << >> is the nil pointer, <<d>> points to the DateTime d.    *)
(* A time.Time is seconds and nanoseconds.                                 *)
(***************************************************************************)
ZeroTime == [sec |-> 0, nsec |-> 0]

\* time.Time.Format(time.RFC3339): to the second, the nanoseconds are dropped
RFC3339(tm) == <<"T", ToString(tm.sec)>>

\* NewDateTime(dt, lit)
NewDateTime(tm, lit) == [lit |-> IF lit = EmptyStr THEN RFC3339(tm) ELSE lit, dt |-> tm]

\* DateTime.Literal and DateTime.DateTime, nil receiver included
DateTimeLiteral(d) == IF d = << >> THEN EmptyStr ELSE d[1].lit
DateTimeOf(d) == IF d = << >> THEN ZeroTime ELSE d[1].dt

\* The zero Twt, &Twt{}
ZeroTwt ==
    [dt |-> << >>, msg |-> << >>, mentions |-> << >>, tags |-> << >>,
     links |-> << >>, hash |-> EmptyStr, subject |-> Nil,
     twter |-> Twter(EmptyStr, EmptyStr)]

\* A new object in the heap: the heap with it, and its address
New(h, obj) == [heap |-> Append(h, obj), addr |-> Len(h) + 1]

\* An append that keeps the last Subject it meets, not the first
TwtAppendLastSubject(h, twt, elem) ==
    IF elem = Nil
    THEN twt
    ELSE LET n == h[elem]
             isSubject == n.kind = "Subject"
         IN  [twt EXCEPT
                !.msg = Append(@, elem),
                !.subject = IF isSubject THEN elem ELSE @,
                !.tags = IF isSubject /\ n.tag # Nil THEN Append(@, n.tag)
                         ELSE IF n.kind = "Tag" THEN Append(@, elem)
                         ELSE @,
                !.mentions = IF n.kind = "Mention" THEN Append(@, elem) ELSE @,
                !.links = IF n.kind = "Link" THEN Append(@, elem) ELSE @]

\* Twt.append(elem): elem is an address, Nil for a nil element
TwtAppend(h, twt, elem) ==
    IF elem = Nil
    THEN twt
    ELSE LET n == h[elem]
             isSubject == n.kind = "Subject"
         IN  [twt EXCEPT
                !.msg = Append(@, elem),
                !.subject = IF isSubject /\ @ = Nil THEN elem ELSE @,
                !.tags = IF isSubject /\ n.tag # Nil THEN Append(@, n.tag)
                         ELSE IF n.kind = "Tag" THEN Append(@, elem)
                         ELSE @,
                !.mentions = IF n.kind = "Mention" THEN Append(@, elem) ELSE @,
                !.links = IF n.kind = "Link" THEN Append(@, elem) ELSE @]

\* The loop of NewTwt: append elems[i], elems[i+1], ...
RECURSIVE AppendAll(_, _, _, _)
AppendAll(h, twt, elems, i) ==
    IF i > Len(elems) THEN twt
    ELSE AppendAll(h, TwtAppend(h, twt, elems[i]), elems, i + 1)

\* NewTwt(twter, dt, elems...)
NewTwt(h, twter, dt, elems) ==
    AppendAll(h, [ZeroTwt EXCEPT !.twter = twter, !.dt = dt], elems, 1)

\* Tag.CloneTag: nil for nil, else a copy at a new address
CloneTag(h, a) ==
    IF a = Nil THEN [heap |-> h, addr |-> Nil] ELSE New(h, h[a])

\* A Clone that hands back the element itself instead of a copy
ElemCloneShared(h, a) == [heap |-> h, addr |-> a]

\* Elem.Clone of the element at address a: a copy at a new address, the tag
\* of a Subject copied too; the lineSeparator returns LineSeparator itself
ElemClone(h, a) ==
    LET n == h[a]
    IN  IF n.kind = "lineSeparator" THEN [heap |-> h, addr |-> LineSeparator]
        ELSE IF n.kind = "Subject"
             THEN LET t2 == CloneTag(h, n.tag)
                  IN  New(t2.heap, [n EXCEPT !.tag = t2.addr])
        ELSE New(h, n)

\* The loop of CloneTwt: msg[i] = twt.msg[i].Clone()
RECURSIVE CloneAll(_, _, _, _)
CloneAll(h, src, i, msg) ==
    IF i > Len(src) THEN [heap |-> h, msg |-> msg]
    ELSE LET r == ElemClone(h, src[i])
         IN  CloneAll(r.heap, src, i + 1, Append(msg, r.addr))

\* Twt.CloneTwt (and Twt.Clone)
CloneTwt(h, twt) ==
    LET r == CloneAll(h, twt.msg, 1, << >>)
    IN  [heap |-> r.heap, twt |-> NewTwt(r.heap, twt.twter, twt.dt, r.msg)]

\* The concatenation of the strings of ss, in order
RECURSIVE Flatten(_, _)
Flatten(ss, i) ==
    IF i > Len(ss) THEN EmptyStr ELSE ss[i] \o Flatten(ss, i + 1)

\* Twt.LiteralText
LiteralText(h, twt) ==
    Flatten([i \in 1 .. Len(twt.msg) |-> Literal(h, twt.msg[i])], 1)

\* Twt.Literal
TwtLiteral(h, twt) ==
    DateTimeLiteral(twt.dt) \o <<"\t">> \o LiteralText(h, twt) \o <<NL>>

\* Twt.Text
TwtText(h, twt) ==
    Flatten([i \in 1 .. Len(twt.msg) |->
                IF IsElemText(h[twt.msg[i]]) THEN ElemFormatText(h, twt.msg[i])
                ELSE Literal(h, twt.msg[i])], 1)

\* The type switches of Twt.Format, one per verb
FormatElemH(h, a) ==
    IF IsElemHTML(h[a]) THEN ElemFormatHTML(h, a)
    ELSE IF IsElemMarkdown(h[a]) THEN ElemFormatMarkdown(h, a)
    ELSE IF IsElemText(h[a]) THEN ElemFormatText(h, a)
    ELSE Literal(h, a)
FormatElemT(h, a) ==
    IF IsElemText(h[a]) THEN ElemFormatText(h, a) ELSE Literal(h, a)
FormatElemM(h, a) ==
    IF IsElemMarkdown(h[a]) THEN ElemFormatMarkdown(h, a)
    ELSE IF IsElemText(h[a]) THEN ElemFormatText(h, a)
    ELSE Literal(h, a)
FormatElemC(h, a) ==
    IF IsElemCompact(h[a]) THEN ElemFormatCompact(h, a) ELSE Literal(h, a)

\* A type switch that goes from the verb's own renderer straight to Literal
FormatElemOwn(h, a, verb) ==
    CASE verb = "H" -> IF IsElemHTML(h[a]) THEN ElemFormatHTML(h, a) ELSE Literal(h, a)
      [] verb = "T" -> FormatElemT(h, a)
      [] verb = "M" -> IF IsElemMarkdown(h[a]) THEN ElemFormatMarkdown(h, a)
                       ELSE Literal(h, a)
      [] verb = "C" -> FormatElemC(h, a)
      [] OTHER -> Literal(h, a)

\* What Twt.Format writes for the element at a under verb
FormatElem(h, a, verb) ==
    CASE verb = "H" -> FormatElemH(h, a)
      [] verb = "T" -> FormatElemT(h, a)
      [] verb = "M" -> FormatElemM(h, a)
      [] verb = "C" -> FormatElemC(h, a)
      [] OTHER -> Literal(h, a)

\* Twt.Format(state, c): plus is the '+' flag, verb the rune c
TwtFormat(h, twt, plus, verb) ==
    (IF plus THEN DateTimeLiteral(twt.dt) \o <<"\t">> ELSE EmptyStr)
    \o Flatten([i \in 1 .. Len(twt.msg) |-> FormatElem(h, twt.msg[i], verb)], 1)

\* Twt.Created
Created(twt) == DateTimeOf(twt.dt)

\* blake2b.Sum256 of the payload, base32 without padding, lower case, its last
\* TwtHashLength characters: a digest, taken to be free of collisions
TwtHashLength == 7
Digest(url, rfc, lit) == <<ToString(<<url, rfc, lit>>)>>

\* A Hash that computes the digest whatever hash is stored
HashFresh(h, twt) ==
    Digest(twt.twter.URL, RFC3339(Created(twt)), LiteralText(h, twt))

\* Twt.Hash: what it returns.  The receiver is a copy of the Twt, so the
\* hash it stores is gone when it returns.
Hash(h, twt) ==
    IF twt.hash # EmptyStr THEN twt.hash
    ELSE Digest(twt.twter.URL, RFC3339(Created(twt)), LiteralText(h, twt))

\* NewSubjectTag(tag, target)
NewSubjectTag(h, tag, target) ==
    LET t2 == New(h, NewTag(tag, target))
    IN  New(t2.heap, SubjectOfTag(t2.addr))

\* Twt.Subject: the address of the subject it returns, in the heap that holds
\* it.  The receiver is a copy, so a synthesized subject is not stored.
Subject(h, twt) ==
    IF twt.subject = Nil THEN NewSubjectTag(h, Hash(h, twt), EmptyStr)
    ELSE [heap |-> h, addr |-> twt.subject]

(***************************************************************************)
(* The collaborators: types.FmtOpts and types.FeedLookup (interfaces of    *)
(* the types package).  NoOpts and NoLookup are the nil interface values.  *)
(***************************************************************************)
NoOpts == [nil |-> TRUE]
LocalOpts == [nil |-> FALSE, host |-> "local"]

\* FmtOpts.LocalURL().Hostname(), IsLocalURL, UserURL, ExternalURL, URLForTag
LocalHostname(o) == <<o.host>>
IsLocalURL(o, url) == Hostname(url) = <<o.host>>
UserURL(o, url) == <<"https://", o.host, "/user/">> \o URLPath(url)
ExternalURL(o, nick, uri) ==
    <<"https://", o.host, "/external?uri=">> \o uri \o <<"&nick=">> \o nick
URLForTag(o, tag) == <<"https://", o.host, "/search?tag=">> \o tag

TwtxtSuffix == <<"/twtxt.txt">>
URLRemote == <<"https://", "remote">> \o TwtxtSuffix
URLLocal == <<"https://", "local">> \o TwtxtSuffix

NoLookup == [nil |-> TRUE]
\* a lookup that knows every name, and answers with a nick name@remote
LookupDomain == [nil |-> FALSE, knows |-> TRUE, domain |-> TRUE]
\* a lookup that knows every name, and answers with the bare name
LookupPlain == [nil |-> FALSE, knows |-> TRUE, domain |-> FALSE]
\* a lookup that knows no name: FeedLookup returns a nil *Twter
LookupNone == [nil |-> FALSE, knows |-> FALSE, domain |-> FALSE]

\* FeedLookup.FeedLookup(name): << >> is the nil *Twter
FeedLookup(lk, name) ==
    IF ~lk.knows THEN << >>
    ELSE <<Twter(IF lk.domain THEN name \o <<"@", "remote">> ELSE name, URLRemote)>>

(***************************************************************************)
(* FormatText and ExpandLinks (ast.go 855-922).                            *)
(***************************************************************************)
\* The tag loop of FormatText on the clone: TextFmt clears each target
RECURSIVE ClearTagTargets(_, _, _, _)
ClearTagTargets(h, tags, i, mode) ==
    IF i > Len(tags) THEN h
    ELSE ClearTagTargets(
            IF mode = TextFmt THEN [h EXCEPT ![tags[i]].target = EmptyStr] ELSE h,
            tags, i + 1, mode)

\* One round of the mention loop of FormatText, on the mention m
RewriteMention(m, mode, opts) ==
    IF mode = TextFmt
    THEN [m EXCEPT
            !.domain = IF @ = EmptyStr /\ IsLocalURL(opts, m.target)
                          /\ HasSuffix(m.target, TwtxtSuffix)
                       THEN LocalHostname(opts) ELSE @,
            !.target = EmptyStr]
    ELSE IF mode \in {MarkdownFmt, HTMLFmt}
    THEN IF IsLocalURL(opts, m.target) /\ HasSuffix(m.target, TwtxtSuffix)
         THEN [m EXCEPT !.target = UserURL(opts, m.target)]
         ELSE [m EXCEPT
                 !.domain = IF @ = EmptyStr THEN Hostname(m.target) ELSE @,
                 !.target = ExternalURL(opts, m.name, m.target)]
    ELSE m

RECURSIVE RewriteMentions(_, _, _, _, _)
RewriteMentions(h, mentions, i, mode, opts) ==
    IF i > Len(mentions) THEN h
    ELSE RewriteMentions(
            [h EXCEPT ![mentions[i]] = RewriteMention(@, mode, opts)],
            mentions, i + 1, mode, opts)

\* The verb FormatText renders with
VerbOf(mode) ==
    IF mode = HTMLFmt THEN "H"
    ELSE IF mode = TextFmt THEN "T"
    ELSE IF mode = MarkdownFmt THEN "M"
    ELSE "L"

\* A FormatText that skips the clone and rewrites the Twt it was called on
FormatTextInPlace(h, twt, mode, opts) ==
    LET h1 == IF opts.nil THEN h
              ELSE RewriteMentions(ClearTagTargets(h, twt.tags, 1, mode),
                                   twt.mentions, 1, mode, opts)
    IN  [heap |-> h1, ret |-> TwtFormat(h1, twt, FALSE, VerbOf(mode))]

\* A FormatText that rewrites nothing, whatever the opts
FormatTextPlain(h, twt, mode, opts) ==
    LET cl == CloneTwt(h, twt)
    IN  [heap |-> cl.heap, ret |-> TwtFormat(cl.heap, cl.twt, FALSE, VerbOf(mode))]

\* Twt.FormatText(mode, opts): the string it returns, and the heap it leaves
FormatText(h, twt, mode, opts) ==
    LET cl == CloneTwt(h, twt)
        h1 == IF opts.nil THEN cl.heap
              ELSE RewriteMentions(ClearTagTargets(cl.heap, cl.twt.tags, 1, mode),
                                   cl.twt.mentions, 1, mode, opts)
    IN  [heap |-> h1, ret |-> TwtFormat(h1, cl.twt, FALSE, VerbOf(mode))]

\* The tag loop of ExpandLinks.  opts.URLForTag on a nil opts panics.
RECURSIVE ExpandTags(_, _, _, _)
ExpandTags(h, tags, i, opts) ==
    IF i > Len(tags) THEN [heap |-> h, panic |-> FALSE]
    ELSE IF h[tags[i]].target = EmptyStr
         THEN IF opts.nil THEN [heap |-> h, panic |-> TRUE]
              ELSE ExpandTags(
                      [h EXCEPT ![tags[i]].target = URLForTag(opts, h[tags[i]].tag)],
                      tags, i + 1, opts)
         ELSE ExpandTags(h, tags, i + 1, opts)

\* An expansion that also writes the mention's literal anew
ExpandMentionLiteral(m, twter) ==
    LET at == AtSign(twter.Nick)
    IN  [m EXCEPT
           !.name = IF at > 0 THEN SubSeq(twter.Nick, 1, at - 1) ELSE twter.Nick,
           !.domain = IF at > 0 THEN SubSeq(twter.Nick, at + 1, Len(twter.Nick)) ELSE @,
           !.target = twter.URL,
           !.lit = MentionFormatText(twter.Nick, twter.URL)]

\* One round of the mention loop of ExpandLinks, twter the looked-up Twter
ExpandMention(m, twter) ==
    LET at == AtSign(twter.Nick)
    IN  [m EXCEPT
           !.name = IF at > 0 THEN SubSeq(twter.Nick, 1, at - 1) ELSE twter.Nick,
           !.domain = IF at > 0 THEN SubSeq(twter.Nick, at + 1, Len(twter.Nick)) ELSE @,
           !.target = twter.URL]

\* The mention loop of ExpandLinks.  A nil *Twter panics when it is read.
RECURSIVE ExpandMentions(_, _, _, _)
ExpandMentions(h, mentions, i, lookup) ==
    IF i > Len(mentions) THEN [heap |-> h, panic |-> FALSE]
    ELSE IF h[mentions[i]].target = EmptyStr /\ ~lookup.nil
         THEN LET twter == FeedLookup(lookup, h[mentions[i]].name)
              IN  IF twter = << >> THEN [heap |-> h, panic |-> TRUE]
                  ELSE ExpandMentions(
                          [h EXCEPT ![mentions[i]] = ExpandMention(@, twter[1])],
                          mentions, i + 1, lookup)
         ELSE ExpandMentions(h, mentions, i + 1, lookup)

\* Twt.ExpandLinks(opts, lookup): the heap it leaves, and whether it panicked
ExpandLinks(h, twt, opts, lookup) ==
    LET r == ExpandTags(h, twt.tags, 1, opts)
    IN  IF r.panic THEN r ELSE ExpandMentions(r.heap, twt.mentions, 1, lookup)

(***************************************************************************)
(* The inputs: the elements a caller builds, the texts and lines a payload *)
(* carries.  An element input is a constructor call; Build runs the calls. *)
(***************************************************************************)
InMention(name, target) == [new |-> "Mention", name |-> name, target |-> target]
InTag(tag, target) == [new |-> "Tag", tag |-> tag, target |-> target]
InSubject(text) == [new |-> "Subject", text |-> text]
InSubjectTag(tag, target) == [new |-> "SubjectTag", tag |-> tag, target |-> target]
InText(txt) == [new |-> "Text", txt |-> txt]
InLink(text, target, linkType) ==
    [new |-> "Link", text |-> text, target |-> target, linkType |-> linkType]
InCode(text, codeType) == [new |-> "Code", text |-> text, codeType |-> codeType]
InLineSeparator == [new |-> "LineSeparator"]
InNil == [new |-> "nil"]

\* The element the constructor call e makes, in the heap
Construct(h, e) ==
    CASE e.new = "Mention" -> New(h, NewMention(e.name, e.target))
      [] e.new = "Tag" -> New(h, NewTag(e.tag, e.target))
      [] e.new = "Subject" -> New(h, NewSubject(e.text))
      [] e.new = "SubjectTag" -> NewSubjectTag(h, e.tag, e.target)
      [] e.new = "Text" -> New(h, NewText(e.txt))
      [] e.new = "Link" -> New(h, NewLink(e.text, e.target, e.linkType))
      [] e.new = "Code" -> New(h, NewCode(e.text, e.codeType))
      [] e.new = "LineSeparator" -> [heap |-> h, addr |-> LineSeparator]
      [] e.new = "nil" -> [heap |-> h, addr |-> Nil]

RECURSIVE Build(_, _, _, _)
Build(h, es, i, addrs) ==
    IF i > Len(es) THEN [heap |-> h, addrs |-> addrs]
    ELSE LET r == Construct(h, es[i])
         IN  Build(r.heap, es, i + 1, Append(addrs, r.addr))

ElemInputs ==
    { InMention(<<"bob">>, EmptyStr),
      InMention(EmptyStr, URLRemote),
      InMention(<<"alice">>, URLLocal),
      InTag(<<"x">>, EmptyStr),
      InTag(<<"x">>, URLRemote),
      InTag(EmptyStr, URLRemote),
      InSubject(<<"re">>),
      InSubjectTag(<<"x">>, EmptyStr),
      InText(<<"hi">>),
      InLink(<<"t">>, URLRemote, LinkMedia),
      InCode(<<"a", LS, "b">>, CodeBlock),
      InLineSeparator,
      InNil }

\* The sequences over S of length at most n
RECURSIVE SeqsUpTo(_, _)
SeqsUpTo(S, n) ==
    IF n = 0 THEN {<< >>}
    ELSE LET R == SeqsUpTo(S, n - 1)
         IN  R \cup {Append(r, x) : r \in {q \in R : Len(q) = n - 1}, x \in S}

MaxElems == 2

TwterAlice == [Twter(<<"alice">>, URLLocal) EXCEPT !.Avatar = <<"a.png">>]
Time1 == [sec |-> 1, nsec |-> 5]
HashCarried == <<"carried">>

\* ParseText(text) and the body of ParseLine: the lexer and the parser are not
\* part of the model.  A text stands for what the parser makes of it: the
\* elements, and whether it recorded diagnostics (parser.Errs()).  Malformed
\* markup comes back as plain text with a diagnostic.
TextInputs ==
    { [elems |-> <<InText(<<"hi">>)>>, errs |-> FALSE],
      [elems |-> <<InMention(<<"bob">>, EmptyStr), InTag(<<"x">>, URLRemote)>>,
       errs |-> FALSE],
      [elems |-> <<InSubjectTag(<<"x">>, EmptyStr), InTag(<<"y">>, EmptyStr)>>,
       errs |-> FALSE],
      [elems |-> <<InText(<<"@", "<", "unterminated">>)>>, errs |-> TRUE] }

ParseText(text) == [lis |-> text.elems, err |-> text.errs]

\* The JSON payloads: well-formed ones, and one json.Unmarshal rejects
JSONInputs ==
    { [valid |-> FALSE] }
    \cup { [valid |-> TRUE, twter |-> TwterAlice, text |-> x, created |-> Time1,
            hash |-> hh] : x \in TextInputs, hh \in {EmptyStr, HashCarried} }

\* DecodeJSON(data): ok and the Twt in its heap, or not ok
DecodeJSON(h, data) ==
    IF ~data.valid THEN [ok |-> FALSE, heap |-> h, twt |-> ZeroTwt]
    ELSE LET dt == NewDateTime(data.created, EmptyStr)
             p == ParseText(data.text)
         IN  IF p.err THEN [ok |-> FALSE, heap |-> h, twt |-> ZeroTwt]
             ELSE LET b == Build(h, p.lis, 1, << >>)
                      twt == NewTwt(b.heap, data.twter, <<dt>>, b.addrs)
                  IN  [ok |-> TRUE, heap |-> b.heap,
                       twt |-> [twt EXCEPT !.hash = data.hash]]

\* A record line: its timestamp field parses or not, its body is a text
LineInputs ==
    { [dated |-> FALSE, text |-> x] : x \in {y \in TextInputs : y.errs} }
    \cup { [dated |-> TRUE, created |-> Time1, text |-> x] : x \in TextInputs }

\* types.ParseLine(line, twter), as the lextwt manager serves it: an error
\* for a timestamp that does not parse, else the Twt of the line
ParseLine(h, line, twter) ==
    IF ~line.dated THEN [ok |-> FALSE, heap |-> h, twt |-> ZeroTwt]
    ELSE LET b == Build(h, line.text.elems, 1, << >>)
         IN  [ok |-> TRUE, heap |-> b.heap,
              twt |-> NewTwt(b.heap, twter,
                             <<NewDateTime(line.created, RFC3339(line.created))>>,
                             b.addrs)]

\* The gob records: sp is strings.SplitN(data, "\t", 5)
GobInputs ==
    { [sp |-> <<TwterAlice.Nick, TwterAlice.URL, TwterAlice.Avatar>>] }
    \cup { [sp |-> <<TwterAlice.Nick, TwterAlice.URL, TwterAlice.Avatar, hh, ln>>] :
             hh \in {EmptyStr, HashCarried}, ln \in LineInputs }

\* Twt.GobDecode(data): ok or not, and the receiver as it leaves it
GobDecode(h, twt, data) ==
    IF Len(data.sp) # 5 THEN [ok |-> FALSE, heap |-> h, twt |-> twt]
    ELSE LET sp == data.sp
             twter == [Twter(sp[1], sp[2]) EXCEPT !.Avatar = sp[3]]
             twt1 == [twt EXCEPT !.hash = sp[4]]
             p == ParseLine(h, sp[5], twter)
         IN  IF ~p.ok THEN [ok |-> FALSE, heap |-> h, twt |-> twt1]
             ELSE [ok |-> TRUE, heap |-> p.heap,
                   twt |-> [p.twt EXCEPT !.hash = twt1.hash]]

(***************************************************************************)
(* Garbage collection.  After each call the heap keeps the objects the     *)
(* program can still reach, first those of t, then those of its clone, in  *)
(* the order of the element sequence; addresses are renamed accordingly.   *)
(***************************************************************************)
RECURSIVE Uniq(_)
Uniq(q) ==
    IF q = << >> THEN << >>
    ELSE LET r == Uniq(SubSeq(q, 1, Len(q) - 1))
             x == q[Len(q)]
         IN  IF \E k \in 1 .. Len(r) : r[k] = x THEN r ELSE Append(r, x)

\* The addresses a Twt reaches
TwtAddrs(h, twt) ==
    Flatten([i \in 1 .. Len(twt.msg) |->
                LET a == twt.msg[i]
                IN  IF h[a].kind = "Subject" /\ h[a].tag # Nil THEN <<a, h[a].tag>>
                    ELSE <<a>>], 1)
    \o twt.mentions \o twt.tags \o twt.links
    \o (IF twt.subject = Nil THEN << >> ELSE <<twt.subject>>)

Collect(h, tw, cl) ==
    LET clAddrs == IF cl = << >> THEN << >> ELSE TwtAddrs(h, cl[1])
        ord == Uniq(<<LineSeparator>> \o TwtAddrs(h, tw) \o clAddrs)
        Ren(a) == IF a = Nil THEN Nil ELSE CHOOSE k \in 1 .. Len(ord) : ord[k] = a
        RenSeq(q) == [k \in 1 .. Len(q) |-> Ren(q[k])]
        RenObj(n) == IF n.kind = "Subject" THEN [n EXCEPT !.tag = Ren(@)] ELSE n
        RenTwt(x) == [x EXCEPT !.msg = RenSeq(@), !.mentions = RenSeq(@),
                               !.tags = RenSeq(@), !.links = RenSeq(@),
                               !.subject = Ren(@)]
    IN  [heap |-> [k \in 1 .. Len(ord) |-> RenObj(h[ord[k]])],
         t |-> RenTwt(tw),
         c |-> IF cl = << >> THEN << >> ELSE <<RenTwt(cl[1])>>]

(***************************************************************************)
(* The metadata store as a state machine: the parser appends the header    *)
(* lines it reads, callers query.                                          *)
(***************************************************************************)
KVIdle == [op |-> "none"]

KVInit ==
    /\ lis = << >>
    /\ kvOut = KVIdle

\* The parser stores one more comment line
AppendComment ==
    /\ Len(lis) < MaxComments
    /\ \E cm \in CommentInputs : lis' = Append(lis, cm)
    /\ kvOut' = KVIdle
    /\ UNCHANGED <<twtVars, typesVars>>

GetNCall ==
    /\ \E key \in Keys, n \in (-MaxN) .. MaxN :
          kvOut' = [op |-> "GetN", key |-> key, n |-> n, res |-> GetN(lis, key, n)]
    /\ UNCHANGED <<lis, twtVars, typesVars>>

GetAllCall ==
    /\ \E prefix \in Prefixes :
          kvOut' = [op |-> "GetAll", prefix |-> prefix, res |-> GetAll(lis, prefix)]
    /\ UNCHANGED <<lis, twtVars, typesVars>>

FollowersCall ==
    /\ kvOut' = [op |-> "Followers", res |-> Followers(lis)]
    /\ UNCHANGED <<lis, twtVars, typesVars>>


(***************************************************************************)
(* The Twt as a state machine.  The model follows one Twt from its         *)
(* construction (NewTwt, DecodeJSON, or GobDecode into a zero Twt) and one *)
(* clone of it.  The caller is sequential: it makes a call, reads what the *)
(* call returned (out), and goes on (Return).                              *)
(***************************************************************************)
Idle == [op |-> "none"]
Ready == out.op = "none"

Modes == {MarkdownFmt, HTMLFmt, TextFmt, TextFmt + 1}
Verbs == {"H", "T", "M", "L", "C", "v"}
OptsInputs == {NoOpts, LocalOpts}
LookupInputs == {NoLookup, LookupDomain, LookupPlain, LookupNone}

TwtInit ==
    /\ heap = <<TheLineSeparator>>
    /\ t = ZeroTwt
    /\ clone = << >>
    /\ out = Idle
    /\ carried = EmptyStr

\* The Twt a call is made on
Receiver(who) == IF who = "t" THEN t ELSE clone[1]
Receivers == IF clone = << >> THEN {"t"} ELSE {"t", "clone"}

NewTwtCall ==
    /\ Ready
    /\ t = ZeroTwt
    /\ \E es \in SeqsUpTo(ElemInputs, MaxElems) :
          LET b == Build(heap, es, 1, << >>)
              twt == NewTwt(b.heap, TwterAlice, <<NewDateTime(Time1, EmptyStr)>>, b.addrs)
              g == Collect(b.heap, twt, << >>)
          IN  /\ heap' = g.heap
              /\ t' = g.t
              /\ clone' = g.c
    /\ out' = [op |-> "NewTwt"]
    /\ carried' = EmptyStr
    /\ UNCHANGED <<kvVars, typesVars>>

DecodeJSONCall ==
    /\ Ready
    /\ t = ZeroTwt
    /\ \E data \in JSONInputs :
          LET r == DecodeJSON(heap, data)
              g == Collect(r.heap, r.twt, << >>)
          IN  /\ out' = [op |-> "DecodeJSON", data |-> data, ok |-> r.ok]
              /\ IF r.ok
                 THEN /\ heap' = g.heap
                      /\ t' = g.t
                      /\ clone' = g.c
                      /\ carried' = data.hash
                 ELSE UNCHANGED <<heap, t, clone, carried>>
    /\ UNCHANGED <<kvVars, typesVars>>

GobDecodeCall ==
    /\ Ready
    /\ \E data \in GobInputs :
          LET r == GobDecode(heap, t, data)
              g == Collect(r.heap, r.twt, IF r.ok THEN << >> ELSE clone)
          IN  /\ out' = [op |-> "GobDecode", ok |-> r.ok]
              /\ heap' = g.heap
              /\ t' = g.t
              /\ clone' = g.c
              /\ carried' = IF r.ok THEN data.sp[4] ELSE EmptyStr
    /\ UNCHANGED <<kvVars, typesVars>>

HashCall ==
    /\ Ready
    /\ \E who \in Receivers :
          out' = [op |-> "Hash", on |-> who, ret |-> Hash(heap, Receiver(who))]
    /\ UNCHANGED <<heap, t, clone, carried, kvVars, typesVars>>

SubjectCall ==
    /\ Ready
    /\ LET r == Subject(heap, t)
           n == r.heap[r.addr]
       IN  out' = [op |-> "Subject",
                   text |-> SubjectText(r.heap, n),
                   tag |-> IF n.tag = Nil THEN << >> ELSE <<r.heap[n.tag].tag>>]
    /\ UNCHANGED <<heap, t, clone, carried, kvVars, typesVars>>

TextCall ==
    /\ Ready
    /\ out' = [op |-> "Text", ret |-> TwtText(heap, t)]
    /\ UNCHANGED <<heap, t, clone, carried, kvVars, typesVars>>

FormatTextCall ==
    /\ Ready
    /\ \E mode \in Modes, opts \in OptsInputs :
          LET r == FormatText(heap, t, mode, opts)
              g == Collect(r.heap, t, clone)
          IN  /\ out' = [op |-> "FormatText", mode |-> mode, opts |-> opts,
                         ret |-> r.ret]
              /\ heap' = g.heap
              /\ t' = g.t
              /\ clone' = g.c
    /\ UNCHANGED <<carried, kvVars, typesVars>>

FormatCall ==
    /\ Ready
    /\ \E verb \in Verbs, plus \in BOOLEAN :
          /\ plus => verb = "L"
          /\ out' = [op |-> "Format", verb |-> verb, plus |-> plus,
                     ret |-> TwtFormat(heap, t, plus, verb)]
    /\ UNCHANGED <<heap, t, clone, carried, kvVars, typesVars>>

ExpandLinksCall ==
    /\ Ready
    /\ \E who \in Receivers, opts \in OptsInputs, lookup \in LookupInputs :
          LET r == ExpandLinks(heap, Receiver(who), opts, lookup)
          IN  /\ out' = [op |-> "ExpandLinks", on |-> who, opts |-> opts,
                         lookup |-> lookup, panic |-> r.panic]
              /\ heap' = r.heap
    /\ UNCHANGED <<t, clone, carried, kvVars, typesVars>>

CloneCall ==
    /\ Ready
    /\ LET r == CloneTwt(heap, t)
           g == Collect(r.heap, t, <<r.twt>>)
       IN  /\ heap' = g.heap
           /\ t' = g.t
           /\ clone' = g.c
    /\ out' = [op |-> "Clone"]
    /\ UNCHANGED <<carried, kvVars, typesVars>>

Return ==
    /\ ~Ready
    /\ out' = Idle
    /\ UNCHANGED <<heap, t, clone, carried, kvVars, typesVars>>

(***************************************************************************)
(* Package types: the TwtManager a program installs, and SplitTwts.        *)
(***************************************************************************)
\* The managers: nilManager, which the package starts with, the managers a
\* program installs, and the nil interface value
NilManager == "nilManager"
NilInterface == "nil"
Managers == {"m1", "m2"}

ManagerOps == {"DecodeJSON", "ParseLine", "ParseFile", "MakeTwt"}
ManagerArgs == {"a", "b"}

NotConfigured == "twt managernot configured"
NilDereference == "nil pointer dereference"

\* A method of the manager m, called with arg: it panics, or returns what the
\* manager makes of the call
ManagerCall(m, op, arg) ==
    IF m = NilManager THEN [panic |-> NotConfigured]
    ELSE IF m = NilInterface THEN [panic |-> NilDereference]
    ELSE [panic |-> "", ret |-> <<m, op, arg>>]

\* types.DecodeJSON, ParseLine, ParseFile, MakeTwt: twtManager.op(arg)
Delegate(manager, op, arg) == ManagerCall(manager, op, arg)

\* A SetTwtManager that installs a manager once and keeps it
SetTwtManagerOnce(manager, m) == IF manager = NilManager THEN m ELSE manager

\* SetTwtManager(m): the new value of twtManager
SetTwtManager(manager, m) == m

\* sort.Sort(twts) with Twts.Less: newest first; the order of Twts created at
\* the same time is not specified, so every such order is an outcome
Sorted(q) ==
    { r \in [1 .. Len(q) -> {q[i] : i \in 1 .. Len(q)}] :
        /\ \A i \in 1 .. Len(q) : \E k \in 1 .. Len(q) : r[k] = q[i]
        /\ \A i \in 1 .. Len(q) - 1 : ~(r[i + 1].created > r[i].created) }

\* The loop of SplitTwts over the sorted twts: the value of pos it ends with
RECURSIVE SplitLoop(_, _, _, _)
SplitLoop(twts, oldTime, N, pos) ==
    IF pos < Len(twts) /\ pos < N
    THEN IF twts[pos + 1].created < oldTime THEN pos - 1
         ELSE SplitLoop(twts, oldTime, N, pos + 1)
    ELSE pos

\* SplitTwts(twts, ttl, N) once twts is sorted; oldTime is time.Now().Add(-ttl)
SplitTwts(twts, oldTime, N) ==
    LET pos == SplitLoop(twts, oldTime, N, 0)
    IN  IF pos < 1 THEN [first |-> << >>, rest |-> twts]
        ELSE [first |-> SubSeq(twts, 1, pos), rest |-> SubSeq(twts, pos + 1, Len(twts))]

TypesIdle == [op |-> "none"]
TypesReady == typesOut.op = "none"

TypesInit ==
    /\ twtManager = NilManager
    /\ installed = << >>
    /\ feed = << >>
    /\ typesOut = TypesIdle

SetTwtManagerCall ==
    /\ TypesReady
    /\ \E m \in Managers \cup {NilInterface} :
          /\ twtManager' = SetTwtManager(twtManager, m)
          /\ installed' = <<m>>
    /\ typesOut' = [op |-> "SetTwtManager"]
    /\ UNCHANGED <<feed, kvVars, twtVars>>

\* A call of the package-level DecodeJSON, ParseLine, ParseFile or MakeTwt
ManagerOpCall ==
    /\ TypesReady
    /\ \E op \in ManagerOps, arg \in ManagerArgs :
          typesOut' = [op |-> op, arg |-> arg, res |-> Delegate(twtManager, op, arg)]
    /\ UNCHANGED <<twtManager, installed, feed, kvVars, twtVars>>

\* The caller's slice gets one more Twt
AppendTwt ==
    /\ TypesReady
    /\ Len(feed) < MaxTwts
    /\ \E created \in 0 .. MaxTime :
          feed' = Append(feed, [id |-> Len(feed) + 1, created |-> created])
    /\ UNCHANGED <<twtManager, installed, typesOut, kvVars, twtVars>>

\* SplitTwts(feed, ttl, N): it sorts the caller's slice in place
SplitTwtsCall ==
    /\ TypesReady
    /\ \E sorted \in Sorted(feed), oldTime \in 0 .. MaxTime + 1, N \in -1 .. MaxTwts + 1 :
          /\ feed' = sorted
          /\ typesOut' = [op |-> "SplitTwts", oldTime |-> oldTime, N |-> N,
                          res |-> SplitTwts(sorted, oldTime, N)]
    /\ UNCHANGED <<twtManager, installed, kvVars, twtVars>>

TypesReturn ==
    /\ ~TypesReady
    /\ typesOut' = TypesIdle
    /\ UNCHANGED <<twtManager, installed, feed, kvVars, twtVars>>

Init == KVInit /\ TwtInit /\ TypesInit

\* The Twt and its clone
Next ==
    \/ NewTwtCall \/ DecodeJSONCall \/ GobDecodeCall
    \/ HashCall \/ SubjectCall \/ TextCall \/ FormatTextCall \/ FormatCall
    \/ ExpandLinksCall \/ CloneCall \/ Return

Spec == Init /\ [][Next]_vars

\* The metadata store
NextKV == AppendComment \/ GetNCall \/ GetAllCall \/ FollowersCall

SpecKV == Init /\ [][NextKV]_vars

\* Package types
NextTypes ==
    \/ SetTwtManagerCall \/ ManagerOpCall \/ AppendTwt \/ SplitTwtsCall
    \/ TypesReturn

SpecTypes == Init /\ [][NextTypes]_vars

(***************************************************************************)
(* Claims about the metadata store.                                        *)
(***************************************************************************)
\* The positions of the entries of l whose key is key, in list order
Matches(l, key) ==
    LET S == {i \in 1 .. Len(l) : l[i].key = key}
        Rank(i) == Cardinality({j \in S : j <= i})
    IN  [r \in 1 .. Cardinality(S) |-> CHOOSE i \in S : Rank(i) = r]

\* C1: GetN with n < 0 indexes the matches from the end, Python style: with m
\* matches it returns match number m+n (0-based) when 0 <= m+n < m, and
\* not-found otherwise; GetN(key, -1) is the last match whenever there is one.
C1_NegativeIndexFromEnd ==
    (kvOut.op = "GetN" /\ kvOut.n < 0) =>
        LET ms == Matches(lis, kvOut.key)
            m == Len(ms)
        IN  IF 0 <= m + kvOut.n /\ m + kvOut.n < m
            THEN kvOut.res = Found(ms[m + kvOut.n + 1])
            ELSE kvOut.res = NotFound

\* C2: GetN(key, 0) is the first match, GetN(key, n) for n > 0 the n-th match
\* (1-indexed), and the result is not-found when n exceeds the number of
\* matches or nothing matches.
C2_NonNegativeIndex ==
    (kvOut.op = "GetN" /\ kvOut.n >= 0) =>
        LET ms == Matches(lis, kvOut.key)
            m == Len(ms)
        IN  /\ (kvOut.n = 0 /\ m > 0) => kvOut.res = Found(ms[1])
            /\ (kvOut.n > 0 /\ kvOut.n <= m) => kvOut.res = Found(ms[kvOut.n])
            /\ (kvOut.n > m \/ m = 0) => kvOut.res = NotFound

\* GetN(key, 2) returned the second of at least three matches
C2_Witness ==
    /\ kvOut.op = "GetN"
    /\ kvOut.n = 2
    /\ Len(Matches(lis, kvOut.key)) >= 3
    /\ kvOut.res.found
    /\ kvOut.res.at = Matches(lis, kvOut.key)[2]

\* The positions of the word starts of s: a non-space character that is
\* first or follows a space
WordStarts(s) ==
    {i \in 1 .. Len(s) : ~IsSpace(s[i]) /\ (i = 1 \/ IsSpace(s[i - 1]))}

\* The word of s that starts at position i
WordAt(s, i) ==
    LET stop == {j \in i .. Len(s) : IsSpace(s[j])}
        last == IF stop = {} THEN Len(s)
                ELSE (CHOOSE j \in stop : \A k \in stop : j <= k) - 1
    IN  SubSeq(s, i, last)

\* The k-th word of s
Word(s, k) ==
    WordAt(s, CHOOSE i \in WordStarts(s) :
                 Cardinality({j \in WordStarts(s) : j <= i}) = k)

\* The entries Followers looks at: a non-empty key that starts with "follow"
IsFollowEntry(c) == c.key # EmptyStr /\ HasPrefix(c.key, KeyFollow)

\* The Twters of the follow entries of l whose number of fields is in counts,
\* in list order
FollowersOf(l, counts) ==
    LET S == {i \in 1 .. Len(l) :
                IsFollowEntry(l[i]) /\ Cardinality(WordStarts(l[i].value)) \in counts}
        Rank(i) == Cardinality({j \in S : j <= i})
    IN  [r \in 1 .. Cardinality(S) |->
            LET i == CHOOSE j \in S : Rank(j) = r
            IN  Twter(Word(l[i].value, 1), Word(l[i].value, 2))]

\* The numbers of fields a value of l can have
FieldCounts(l) == {Cardinality(WordStarts(l[i].value)) : i \in 1 .. Len(l)}

\* C3 as claimed: Followers returns one Twter {Nick, URL} per follow entry whose
\* value has exactly two fields, and skips every other entry.
C3_ExactlyTwoFields ==
    kvOut.op = "Followers" => kvOut.res = FollowersOf(lis, {2})

\* C3 amended: Followers returns, in list order, one Twter {Nick, URL} per
\* follow entry whose value has at least two fields, made of its first two
\* fields; only entries with fewer than two fields are skipped.
C3_AtLeastTwoFields ==
    kvOut.op = "Followers" => kvOut.res = FollowersOf(lis, FieldCounts(lis) \ {0, 1})

\* Followers kept a three-field entry and skipped a one-field entry
C3_Witness ==
    /\ kvOut.op = "Followers"
    /\ \E i \in 1 .. Len(lis) :
          IsFollowEntry(lis[i]) /\ Cardinality(WordStarts(lis[i].value)) = 3
    /\ \E i \in 1 .. Len(lis) :
          IsFollowEntry(lis[i]) /\ Cardinality(WordStarts(lis[i].value)) = 1
    /\ Len(kvOut.res) >= 1

(***************************************************************************)
(* Claims about the Twt.                                                   *)
(***************************************************************************)
\* The element sequence of twt holds no Subject element
NoSubjectElem(h, twt) == \A i \in 1 .. Len(twt.msg) : h[twt.msg[i]].kind # "Subject"

\* A mention that ExpandLinks resolved: its fields no longer spell its literal
Expanded(n) == n.kind = "Mention" /\ MentionFormatText(n.name, n.target) # n.lit

\* C4, as stated: for a Twt whose element sequence holds no Subject element,
\* Subject() wraps a Tag whose text is the Twt's hash, and Subject().Text()
\* equals what Hash() returns.
C4_SubjectTextIsHash ==
    (out.op = "Subject" /\ NoSubjectElem(heap, t))
        => /\ out.tag = <<Hash(heap, t)>>
           /\ out.text = Hash(heap, t)

\* C4, amended: for a Twt whose element sequence holds no Subject element,
\* Subject() wraps a Tag whose text is the Twt's hash, and Subject().Text()
\* is the literal of that tag: "#" followed by what Hash() returns.
C4_SubjectTextIsHashTag ==
    (out.op = "Subject" /\ NoSubjectElem(heap, t))
        => /\ out.tag = <<Hash(heap, t)>>
           /\ out.text = <<"#">> \o Hash(heap, t)

\* Subject() has answered for a Twt that has elements, none of them a Subject,
\* and that carries no hash
C4_Witness ==
    /\ out.op = "Subject"
    /\ NoSubjectElem(heap, t)
    /\ Len(t.msg) > 0
    /\ t.hash = EmptyStr
    /\ out.tag # << >>

\* C5: after DecodeJSON or GobDecode succeeded on a payload that carries a
\* non-empty hash, every Hash() call on the decoded Twt returns that hash,
\* whatever FormatText, Text, Subject and ExpandLinks calls came in between.
C5_CarriedHashVerbatim ==
    (out.op = "Hash" /\ out.on = "t" /\ carried # EmptyStr) => out.ret = carried

\* Hash() has answered for a decoded Twt that carries a hash and whose
\* mentions ExpandLinks has resolved since
C5_Witness ==
    /\ out.op = "Hash"
    /\ out.on = "t"
    /\ carried = HashCarried
    /\ \E i \in 1 .. Len(t.mentions) : Expanded(heap[t.mentions[i]])

\* The three inputs of a freshly computed hash
HashInputs(h, twt) ==
    <<twt.twter.URL, RFC3339(Created(twt)), LiteralText(h, twt)>>

\* The calls that read or rewrite a Twt, as opposed to those that build one
Constructing == {"NewTwt", "DecodeJSON", "GobDecode"}

\* C6: for a Twt with no carried hash, Hash() is the digest of the author
\* URL, the creation time in RFC3339 and LiteralText(); no FormatText, Text,
\* Subject or ExpandLinks call changes these three, so Hash() returns the same
\* value before and after any such call.
C6_HashStable ==
    [][(t.hash = EmptyStr /\ out'.op \notin Constructing)
          => /\ HashInputs(heap', t') = HashInputs(heap, t)
             /\ Hash(heap', t') = Hash(heap, t)
             /\ Hash(heap, t) = Digest(t.twter.URL, RFC3339(Created(t)),
                                       LiteralText(heap, t))
             /\ (out'.op = "Hash" /\ out'.on = "t") => out'.ret = Hash(heap, t)]_vars

\* ExpandLinks has resolved a mention of a Twt that carries no hash
C6_Witness ==
    /\ out.op = "ExpandLinks"
    /\ out.on = "t"
    /\ ~out.panic
    /\ t.hash = EmptyStr
    /\ \E i \in 1 .. Len(t.mentions) : Expanded(heap[t.mentions[i]])

\* What a caller can see of a Twt: its element kinds, the fields of its
\* mentions and tags, and its rendering under every verb
View(h, twt) ==
    [msg |-> [i \in 1 .. Len(twt.msg) |-> h[twt.msg[i]].kind],
     mentions |-> [i \in 1 .. Len(twt.mentions) |->
                     <<h[twt.mentions[i]].name, h[twt.mentions[i]].domain,
                       h[twt.mentions[i]].target>>],
     tags |-> [i \in 1 .. Len(twt.tags) |->
                 <<h[twt.tags[i]].tag, h[twt.tags[i]].target>>],
     renderings |-> [verb \in Verbs |-> TwtFormat(h, twt, FALSE, verb)]]

\* C7: Clone(t) renders as t does under every verb, and the two are disjoint:
\* an ExpandLinks call on the clone leaves every mention and tag of t and
\* every rendering of t as they were, and an ExpandLinks call on t leaves an
\* earlier clone as it was.
C7_CloneDisjoint ==
    [][/\ out'.op = "Clone"
            => \A verb \in Verbs :
                  TwtFormat(heap', clone'[1], FALSE, verb)
                      = TwtFormat(heap', t', FALSE, verb)
       /\ (out'.op = "ExpandLinks" /\ out'.on = "clone")
            => View(heap', t') = View(heap, t)
       /\ (out'.op = "ExpandLinks" /\ out'.on = "t" /\ clone # << >>)
            => View(heap', clone'[1]) = View(heap, clone[1])]_vars

\* ExpandLinks on the clone has resolved a mention that t still holds bare
C7_Witness ==
    /\ out.op = "ExpandLinks"
    /\ out.on = "clone"
    /\ ~out.panic
    /\ \E i \in 1 .. Len(t.mentions) :
          /\ Expanded(heap[clone[1].mentions[i]])
          /\ ~Expanded(heap[t.mentions[i]])
          /\ heap[t.mentions[i]].target = EmptyStr

\* C8: FormatText(mode, opts) leaves the Twt it is called on as it was, for
\* every mode and every opts: the same element sequence, and every element
\* the Twt reaches (its mentions' name, domain and target, its tags' target)
\* unchanged; what it rewrites is a clone.
C8_FormatTextKeepsReceiver ==
    [][out'.op = "FormatText"
          => /\ t' = t
             /\ \A k \in 1 .. Len(TwtAddrs(heap, t)) :
                   heap'[TwtAddrs(heap, t)[k]] = heap[TwtAddrs(heap, t)[k]]
             /\ View(heap', t') = View(heap, t)]_vars

\* FormatText has rewritten something with opts at hand: what it returned is
\* not the plain rendering of the Twt, which still holds a mention's target
C8_Witness ==
    /\ out.op = "FormatText"
    /\ ~out.opts.nil
    /\ out.ret # TwtFormat(heap, t, FALSE, VerbOf(out.mode))
    /\ \E i \in 1 .. Len(t.mentions) : heap[t.mentions[i]].target # EmptyStr

\* The text of one element once every tag target and mention target is
\* empty: "@name" for a mention, "#tag" for a tag
ClearedText(h, a) ==
    LET n == h[a]
    IN  CASE n.kind = "Mention" ->
                 IF n.name = EmptyStr THEN EmptyStr ELSE <<"@">> \o n.name
          [] n.kind = "Tag" -> <<"#">> \o n.tag
          [] n.kind = "Subject" ->
                 IF n.tag = Nil THEN <<"(">> \o n.subject \o <<")">>
                 ELSE <<"(", "#">> \o h[n.tag].tag \o <<")">>
          [] n.kind = "lineSeparator" -> <<NL>>
          [] OTHER -> Literal(h, a)

RenderCleared(h, twt) ==
    Flatten([i \in 1 .. Len(twt.msg) |-> ClearedText(h, twt.msg[i])], 1)

\* Some tag or mention of twt has a target
HasTarget(h, twt) ==
    \/ \E i \in 1 .. Len(twt.mentions) : h[twt.mentions[i]].target # EmptyStr
    \/ \E i \in 1 .. Len(twt.msg) :
          h[twt.msg[i]].kind = "Tag" /\ h[twt.msg[i]].target # EmptyStr

\* C9, as stated: for every opts, nil included, FormatText(TextFmt, opts)
\* returns the text of a copy in which every tag target and every mention
\* target is empty, so that no tag or mention shows in its targeted form.
C9_TextFmtClearsTargets ==
    (out.op = "FormatText" /\ out.mode = TextFmt)
        => out.ret = RenderCleared(heap, t)

\* C9, amended: for every opts other than nil, FormatText(TextFmt, opts)
\* returns the text of a copy in which every tag target and every mention
\* target is empty, so that no tag or mention shows in its targeted form.
C9_TextFmtClearsTargetsWithOpts ==
    (out.op = "FormatText" /\ out.mode = TextFmt /\ ~out.opts.nil)
        => out.ret = RenderCleared(heap, t)

\* FormatText(TextFmt, opts) has answered, opts not nil, for a Twt that has a
\* tag or a mention with a target
C9_Witness ==
    /\ out.op = "FormatText"
    /\ out.mode = TextFmt
    /\ ~out.opts.nil
    /\ HasTarget(heap, t)

\* The verbs of the four modes: HTML, Markdown, Text, Compact
ModeVerbs == {"H", "M", "T", "C"}

\* The renderers Twt.Format tries under a verb, in the order it tries them
Chain(verb) ==
    CASE verb = "H" -> <<"H", "M", "T">>
      [] verb = "M" -> <<"M", "T">>
      [] verb = "T" -> <<"T">>
      [] verb = "C" -> <<"C">>

\* The element n has the renderer r
HasRenderer(n, r) ==
    CASE r = "H" -> IsElemHTML(n)
      [] r = "M" -> IsElemMarkdown(n)
      [] r = "T" -> IsElemText(n)
      [] r = "C" -> IsElemCompact(n)

\* What the renderer r of the element at a writes
RenderWith(h, a, r) ==
    CASE r = "H" -> ElemFormatHTML(h, a)
      [] r = "M" -> ElemFormatMarkdown(h, a)
      [] r = "T" -> ElemFormatText(h, a)
      [] r = "C" -> ElemFormatCompact(h, a)

\* The first renderer of the chain that the element has, else its Literal()
RenderChain(h, a, chain) ==
    LET S == {k \in 1 .. Len(chain) : HasRenderer(h[a], chain[k])}
    IN  IF S = {} THEN Literal(h, a)
        ELSE RenderWith(h, a, chain[CHOOSE k \in S : \A j \in S : k <= j])

\* C10, as stated: rendering under a verb concatenates, in order, what each
\* element writes, and an element that has no renderer for the verb's mode
\* writes its Literal(): also LineSeparator and Code under Markdown and HTML.
C10_FallbackToLiteral ==
    (out.op = "Format" /\ out.verb \in ModeVerbs)
        => out.ret = Flatten([i \in 1 .. Len(t.msg) |->
                                RenderChain(heap, t.msg[i], <<out.verb>>)], 1)

\* C10, amended: rendering under a verb concatenates, in order, what each
\* element writes, and an element that has no renderer for the verb's mode
\* writes with the next renderer it has, Markdown then Text under HTML, Text
\* under Markdown, and its Literal() when it has none of them.
C10_FallbackChain ==
    (out.op = "Format" /\ out.verb \in ModeVerbs)
        => out.ret = Flatten([i \in 1 .. Len(t.msg) |->
                                RenderChain(heap, t.msg[i], Chain(out.verb))], 1)

\* A Twt that holds a Code and a LineSeparator has been rendered as HTML
C10_Witness ==
    /\ out.op = "Format"
    /\ out.verb = "H"
    /\ \E i \in 1 .. Len(t.msg) : heap[t.msg[i]].kind = "Code"
    /\ \E i \in 1 .. Len(t.msg) : heap[t.msg[i]].kind = "lineSeparator"

\* The mention m with the nick and URL of twter: the nick split into name and
\* domain at its first "@" when it has one
Resolved(m, twter) ==
    LET at == AtSign(twter.Nick)
    IN  IF at = 0
        THEN [m EXCEPT !.name = twter.Nick, !.target = twter.URL]
        ELSE [m EXCEPT !.name = SubSeq(twter.Nick, 1, at - 1),
                       !.domain = SubSeq(twter.Nick, at + 1, Len(twter.Nick)),
                       !.target = twter.URL]

\* C11: ExpandLinks(opts, lookup) fills in exactly the empty targets, for every
\* lookup and whatever FeedLookup returns for a name: the call completes, every
\* tag whose target was empty has the target opts.URLForTag(tag text), every
\* mention whose target was empty has the nick and URL FeedLookup returned for
\* its name, and every tag and mention that had a target is unchanged.
C11_ExpandLinksFillsEmptyTargets ==
    [][(out'.op = "ExpandLinks" /\ ~out'.opts.nil /\ ~out'.lookup.nil)
          => LET twt == IF out'.on = "t" THEN t ELSE clone[1]
             IN  /\ ~out'.panic
                 /\ \A i \in 1 .. Len(twt.tags) :
                       LET n == heap[twt.tags[i]]
                       IN  heap'[twt.tags[i]] =
                              IF n.target = EmptyStr
                              THEN [n EXCEPT !.target = URLForTag(out'.opts, n.tag)]
                              ELSE n
                 /\ \A i \in 1 .. Len(twt.mentions) :
                       LET m == heap[twt.mentions[i]]
                           twter == FeedLookup(out'.lookup, m.name)
                       IN  heap'[twt.mentions[i]] =
                              IF m.target = EmptyStr /\ twter # << >>
                              THEN Resolved(m, twter[1])
                              ELSE m]_vars

\* C14: the first Hash() call on a Twt that has no stored hash stores the
\* value it computed in that Twt, and the first Subject() call on a Twt with
\* no Subject element stores the subject it synthesized in that Twt: once the
\* call has returned, the hash (the subject) field of the Twt is set.
C14_LazyMemoization ==
    /\ (out.op = "Hash" /\ out.on = "t") => t.hash = out.ret
    /\ (out.op = "Subject" /\ NoSubjectElem(heap, t)) => t.subject # Nil

\* The elements of msg of the given kind, in order
OfKind(h, msg, kind) ==
    Flatten([i \in 1 .. Len(msg) |->
                IF h[msg[i]].kind = kind THEN <<msg[i]>> ELSE << >>], 1)

\* The Tag elements of msg and the tags its Subject elements wrap, in order
TagsIn(h, msg) ==
    Flatten([i \in 1 .. Len(msg) |->
                IF h[msg[i]].kind = "Tag" THEN <<msg[i]>>
                ELSE IF h[msg[i]].kind = "Subject" /\ h[msg[i]].tag # Nil
                     THEN <<h[msg[i]].tag>>
                ELSE << >>], 1)

\* The indexes of twt are what its element sequence holds, object for object
WellIndexed(h, twt) ==
    /\ \A i \in 1 .. Len(twt.msg) : twt.msg[i] # Nil
    /\ twt.mentions = OfKind(h, twt.msg, "Mention")
    /\ twt.links = OfKind(h, twt.msg, "Link")
    /\ twt.tags = TagsIn(h, twt.msg)
    /\ twt.subject = IF OfKind(h, twt.msg, "Subject") = << >> THEN Nil
                     ELSE OfKind(h, twt.msg, "Subject")[1]

\* C15: in every state reached from NewTwt by Hash, Subject, Text, FormatText,
\* ExpandLinks and Clone calls, the element sequence of the Twt (and of its
\* clone) holds no nil element, Mentions() is its Mention elements in order,
\* Links() its Link elements, Tags() its Tag elements and the tags its Subject
\* elements wrap, the stored subject is its first Subject element, none if it
\* has none, and the index entries are the objects of the element sequence.
C15_DerivedIndexes ==
    /\ WellIndexed(heap, t)
    /\ clone # << >> => WellIndexed(heap, clone[1])

\* ExpandLinks has run on a Twt built from elements that include two
\* Subjects, the second one wrapping a tag, and that has a clone
C15_Witness ==
    /\ out.op = "ExpandLinks"
    /\ ~out.panic
    /\ carried = EmptyStr
    /\ clone # << >>
    /\ Len(OfKind(heap, t.msg, "Subject")) = 2
    /\ Len(t.tags) = 1

\* The literal text of the elements a text parses to
ParsedLiteral(text) ==
    LET b == Build(<<TheLineSeparator>>, ParseText(text).lis, 1, << >>)
    IN  Flatten([i \in 1 .. Len(b.addrs) |-> Literal(b.heap, b.addrs[i])], 1)

\* C16: for every well-formed JSON payload DecodeJSON succeeds and returns a
\* Twt built from the elements ParseText produced, also when parsing the text
\* recorded diagnostics for malformed markup: only the JSON unmarshalling makes
\* DecodeJSON fail.
C16_DecodeJSONKeepsMalformedMarkup ==
    (out.op = "DecodeJSON" /\ out.data.valid)
        => /\ out.ok
           /\ Len(t.msg) = Len(ParseText(out.data.text).lis)
           /\ LiteralText(heap, t) = ParsedLiteral(out.data.text)

\* C17: for every Twt t, also one decoded with a carried hash that is not what
\* a fresh computation gives, Clone(t).Hash() equals t.Hash().
C17_ClonePreservesHash ==
    out.op = "Clone" => Hash(heap, clone[1]) = Hash(heap, t)

\* C18: whenever GobDecode returns an error, because the data does not split
\* into five fields or because its fifth field does not parse as a record
\* line, the receiving Twt is as it was before the call: its stored hash, its
\* author, its timestamp and its elements are unchanged, and Hash() returns
\* what it returned before.
C18_GobDecodeAllOrNothing ==
    [][(out'.op = "GobDecode" /\ ~out'.ok)
          => /\ t' = t
             /\ View(heap', t') = View(heap, t)
             /\ Hash(heap', t') = Hash(heap, t)]_vars

(***************************************************************************)
(* Claims about package types.                                             *)
(***************************************************************************)
\* C12: a call of the package-level DecodeJSON, ParseLine, ParseFile or MakeTwt
\* made before any SetTwtManager call panics with the "not configured" signal;
\* a call made after SetTwtManager(m) goes to the manager m installed last and
\* returns what m returns (for the nil interface value there is no manager to
\* return anything: the call panics on the nil dereference).
C12_ManagerWiring ==
    typesOut.op \in ManagerOps
        => IF installed = << >>
           THEN typesOut.res = [panic |-> NotConfigured]
           ELSE IF installed[1] \in Managers
           THEN typesOut.res = [panic |-> "",
                                ret |-> <<installed[1], typesOut.op, typesOut.arg>>]
           ELSE typesOut.res = [panic |-> NilDereference]

\* A package-level call has returned the result of an installed manager
C12_Witness ==
    /\ typesOut.op \in ManagerOps
    /\ installed # << >>
    /\ installed[1] \in Managers
    /\ typesOut.res.panic = ""

\* The length of the longest prefix of twts that has at most N Twts, all of
\* them created no earlier than oldTime
FreshPrefix(twts, oldTime, N) ==
    LET K == {k \in 0 .. Len(twts) :
                /\ k <= N
                /\ \A i \in 1 .. k : twts[i].created >= oldTime}
    IN  IF K = {} THEN 0 ELSE CHOOSE k \in K : \A j \in K : j <= k

\* C13: SplitTwts(twts, ttl, N) returns (first, rest) where, with twts ordered
\* newest first, first is the longest prefix that has at most N Twts all
\* created no earlier than now - ttl, and rest is the remaining Twts: no Twt is
\* lost or duplicated.
C13_SplitLongestFreshPrefix ==
    typesOut.op = "SplitTwts"
        => LET k == FreshPrefix(feed, typesOut.oldTime, typesOut.N)
           IN  /\ typesOut.res.first = SubSeq(feed, 1, k)
               /\ typesOut.res.rest = SubSeq(feed, k + 1, Len(feed))

====
